---------------------------- MODULE Spec2Model ----------------------------
(***************************************************************************)
(* Model of the CubeSat budget analyzer's data-budget and link-budget      *)
(* engines:                                                                *)
(*   - DataBudgetCalculator (src/model/data_budget.py): calculate,         *)
(*     calculate_data_budget, _calculate_downlink_capacity,                *)
(*     _calculate_max_storage, _generate_timeline;                         *)
(*   - DataBudgetModel (src/model/data_budget_model.py): set_parameters,   *)
(*     calculate, _validate_inputs, _generate_recommendations;             *)
(*   - LinkBudgetModel (src/model/link_budget_model.py): set_parameters,   *)
(*     calculate, calculate_margin_vs_parameter and their helpers;         *)
(*   - LinkBudgetCalculator (src/model/link_budget.py): calculate.         *)
(*                                                                         *)
(* Numbers.  Python floats are modelled as exact rationals.  Every input   *)
(* set below is a lattice on which each quotient the code forms is an      *)
(* integer (days_until_full and needed_passes are kept as fractions), so   *)
(* the model computes the code's expressions exactly, with the program's   *)
(* own constants.  Datetimes are integer ticks of HoursPerTick hours.      *)
(***************************************************************************)
EXTENDS Integers, Sequences, FiniteSets, TLC

VARIABLES
    call,           \* the last DataBudgetCalculator call: arguments, clock readings, locals, outcome
    dbmParameters,  \* DataBudgetModel._parameters
    dbmCall,        \* the last DataBudgetModel.calculate call: parameters on entry, outcome
    lbmParameters,  \* LinkBudgetModel._parameters
    lbmCall,        \* the last LinkBudgetModel call: arguments, outcome
    shared,         \* the class of the model instance two callers share, or "none"
    caller,         \* each of the two callers: its parameters, its next step, its outcome
    linkView,       \* what LinkBudgetController last gave the link budget view
    manager,        \* the ApplicationManager's windows
    appCall         \* the last ApplicationManager call and whether it ended without error

vars == <<call, dbmParameters, dbmCall, lbmParameters, lbmCall, shared, caller,
          linkView, manager, appCall>>

(***************************************************************************)
(* Bounds of the model                                                     *)
(***************************************************************************)
MaxWindows == 2     \* longest opportunities list given to _generate_timeline
MaxBudgetWindows == 1   \* longest downlink_opportunities list given to calculate_data_budget
MaxTime == 3        \* window timestamps range over ticks 0..MaxTime

(***************************************************************************)
(* Program constants                                                       *)
(***************************************************************************)
MB_TO_BITS == 8 * 1024 * 1024
DEFAULT_DOWNLINK_RATE == 1000 * 1000          \* the 1e6 of .get('downlink_rate', 1e6)
seconds_per_day == 24 * 3600

\* Python's None, where the other values are fractions or sequences
None == <<>>

\* no exception left the call
NoError == "none"

(***************************************************************************)
(* Arithmetic                                                              *)
(***************************************************************************)
Abs(x) == IF x < 0 THEN -x ELSE x

max(a, b) == IF a >= b THEN a ELSE b

RECURSIVE GCD(_, _)
GCD(a, b) == IF b = 0 THEN a ELSE GCD(b, a % b)

\* a * b / c over the rationals, for a, b, c with c > 0 dividing a * b; the
\* common factors are cancelled first so that no intermediate value leaves
\* the 32-bit range of TLC's integers.
MulDiv(a, b, c) ==
    LET g1 == GCD(Abs(a), c)
        a1 == a \div g1
        c1 == c \div g1
        g2 == GCD(Abs(b), c1)
    IN  (a1 * (b \div g2)) \div (c1 \div g2)

\* x / y as a float that need not be an integer: the fraction <<x, y>>, y # 0
Frac(x, y) == <<x, y>>

\* a fraction in lowest terms with a positive denominator
Reduced(p) ==
    LET g == GCD(Abs(p[1]), Abs(p[2]))
        sign == IF p[2] < 0 THEN -1 ELSE 1
    IN  <<sign * (p[1] \div g), sign * (p[2] \div g)>>

FracEq(p, q) == Reduced(p) = Reduced(q)

\* p < n and p >= n, for a fraction p and an integer n
FracLess(p, n) == IF p[2] > 0 THEN p[1] < n * p[2] ELSE p[1] > n * p[2]

RECURSIVE SeqMax(_)
SeqMax(s) == IF Len(s) = 1 THEN s[1] ELSE max(s[1], SeqMax(Tail(s)))

(***************************************************************************)
(* Time: datetime values are ticks; one tick is HoursPerTick hours, the    *)
(* smallest step for which rate * seconds / MB_TO_BITS is an integer at    *)
(* every rate of the model.                                                *)
(***************************************************************************)
HoursPerTick == 8 * 1024

\* timedelta(hours=h), for h a multiple of HoursPerTick
timedelta_hours(h) == h \div HoursPerTick

\* timedelta.total_seconds()
total_seconds(d) == d * HoursPerTick * 3600

(***************************************************************************)
(* DataBudgetCalculator._generate_timeline                                 *)
(***************************************************************************)
\* window.get('downlink_rate', 1e6) and params.get('downlink_rate', 1e6)
dict_get(d, key, default) == IF key \in DOMAIN d THEN d[key] ELSE default

\* insert_sorted placing a window before the windows of equal start: a sort
\* that is not stable
RECURSIVE insert_sorted_unstable(_, _)
insert_sorted_unstable(w, s) ==
    IF s = <<>> THEN <<w>>
    ELSE IF w.start <= Head(s).start THEN <<w>> \o s
    ELSE <<Head(s)>> \o insert_sorted_unstable(w, Tail(s))

\* sorted(...)'s insertion of one window: after every window whose start is
\* not later (Python's sort is stable)
RECURSIVE insert_sorted(_, _)
insert_sorted(w, s) ==
    IF s = <<>> THEN <<w>>
    ELSE IF w.start < Head(s).start THEN <<w>> \o s
    ELSE <<Head(s)>> \o insert_sorted(w, Tail(s))

\* sorted(opportunities, key=lambda x: datetime.fromisoformat(x['start']))
RECURSIVE sorted_by_start(_)
sorted_by_start(opportunities) ==
    IF opportunities = <<>> THEN <<>>
    ELSE insert_sorted(opportunities[Len(opportunities)],
                       sorted_by_start(SubSeq(opportunities, 1, Len(opportunities) - 1)))

\* One iteration of the loop over the sorted windows; st holds the locals
\* timeline, cumulative_data and last_time.
window_step(st, window, data_rate_bps) ==
    LET window_start == window.start
        window_end == window.end
        data_generated ==
            MulDiv(total_seconds(window_start - st.last_time), data_rate_bps, MB_TO_BITS)
        at_start == st.cumulative_data + data_generated
        downlink_rate_bps == dict_get(window, "downlink_rate", DEFAULT_DOWNLINK_RATE)
        data_downlinked ==
            MulDiv(total_seconds(window_end - window_start), downlink_rate_bps, MB_TO_BITS)
        at_end == max(0, at_start - data_downlinked)
    IN  [timeline |-> st.timeline \o << <<window_start, at_start>>, <<window_end, at_end>> >>,
         cumulative_data |-> at_end,
         last_time |-> window_end]

RECURSIVE walk_windows(_, _, _)
walk_windows(st, windows, data_rate_bps) ==
    IF windows = <<>> THEN st
    ELSE walk_windows(window_step(st, Head(windows), data_rate_bps), Tail(windows), data_rate_bps)

\* final_point without "cumulative_data += data_generated"
final_point_not_accumulated(st, end_time, data_rate_bps) ==
    IF st.last_time < end_time
    THEN Append(st.timeline, <<end_time, st.cumulative_data>>)
    ELSE st.timeline

\* "Add final point"
final_point(st, end_time, data_rate_bps) ==
    IF st.last_time < end_time
    THEN LET data_generated ==
                 MulDiv(total_seconds(end_time - st.last_time), data_rate_bps, MB_TO_BITS)
         IN  Append(st.timeline, <<end_time, st.cumulative_data + data_generated>>)
    ELSE st.timeline

\* now is the value datetime.now() returns inside the call
_generate_timeline(data_rate_bps, opportunities, mission_duration_hours, now) ==
    LET current_time == now
        end_time == current_time + timedelta_hours(mission_duration_hours)
        st0 == [timeline |-> <<>>, cumulative_data |-> 0, last_time |-> current_time]
        st == walk_windows(st0, sorted_by_start(opportunities), data_rate_bps)
    IN  final_point(st, end_time, data_rate_bps)

\* the cumulative_storage values of a timeline
Storage(timeline) == [i \in 1..Len(timeline) |-> timeline[i][2]]

\* max(point[1] for point in timeline), for a timeline with a sample; max()
\* of an empty sequence raises ValueError, which calculate_data_budget below
\* tests with max_raises before it uses this value
_calculate_max_storage(data_rate_bps, opportunities, mission_duration_hours, now) ==
    LET timeline == _generate_timeline(data_rate_bps, opportunities, mission_duration_hours, now)
    IN  SeqMax(Storage(timeline))

max_raises(data_rate_bps, opportunities, mission_duration_hours, now) ==
    _generate_timeline(data_rate_bps, opportunities, mission_duration_hours, now) = <<>>

RECURSIVE _calculate_downlink_capacity(_, _)
_calculate_downlink_capacity(opportunities, params) ==
    LET downlink_rate_bps == dict_get(params, "downlink_rate", DEFAULT_DOWNLINK_RATE)
    IN  IF opportunities = <<>> THEN 0
        ELSE LET window == opportunities[Len(opportunities)]
                 duration_seconds == total_seconds(window.end - window.start)
             IN  _calculate_downlink_capacity(
                     SubSeq(opportunities, 1, Len(opportunities) - 1), params)
                 + MulDiv(downlink_rate_bps, duration_seconds, MB_TO_BITS)

(***************************************************************************)
(* DataBudgetResult (src/model/data_budget.py): the dataclass's generated  *)
(* __init__ takes exactly its declared fields and raises TypeError on any  *)
(* other keyword.                                                          *)
(***************************************************************************)
DataBudgetResultFields ==
    {"data_generated", "downlink_capacity", "storage_required", "storage_available",
     "backlog", "days_until_full", "recommendations"}

DataBudgetResult(kwargs) ==
    IF DOMAIN kwargs = DataBudgetResultFields
    THEN [raised |-> NoError, result |-> kwargs]
    ELSE [raised |-> "TypeError", result |-> None]

(***************************************************************************)
(* DataBudgetCalculator.calculate_data_budget; now1 and now2 are the       *)
(* values datetime.now() returns inside _calculate_max_storage and inside  *)
(* the later _generate_timeline call.  The value is the call's record:     *)
(* the exception raised (or NoError), the result returned (or None) and    *)
(* the locals at the point the call ended.                                 *)
(***************************************************************************)
\* "Calculate storage requirements" to the return statement, once
\* _calculate_max_storage has returned max_storage_required and
\* _generate_timeline has returned timeline
budget_result(storage_capacity_bytes, total_data_generated, total_downlink_capacity, max_storage_required, timeline) ==
    LET storage_margin == storage_capacity_bytes - max_storage_required
        is_viable == storage_margin >= 0
        recommendations ==
            IF ~is_viable
            THEN <<"Increase storage capacity",
                   "Consider reducing data generation rate during non-downlink periods",
                   "Add more downlink opportunities if possible">>
            ELSE IF 5 * storage_margin < storage_capacity_bytes
            THEN <<"Storage margin is less than 20% of capacity">>
            ELSE <<>>
        made == DataBudgetResult(
            [data_generated |-> total_data_generated,
             downlink_capacity |-> total_downlink_capacity,
             storage_required |-> max_storage_required,
             storage_available |-> storage_margin,
             backlog |-> max(0, total_data_generated - total_downlink_capacity),
             days_until_full |->
                 IF total_data_generated <= total_downlink_capacity THEN None
                 ELSE Frac(storage_margin, total_data_generated - total_downlink_capacity),
             recommendations |-> recommendations,
             timeline |-> timeline])
    IN  [raised |-> made.raised, result |-> made.result,
         locals |-> [total_data_generated |-> total_data_generated,
                     total_downlink_capacity |-> total_downlink_capacity,
                     max_storage_required |-> max_storage_required,
                     storage_margin |-> storage_margin,
                     is_viable |-> is_viable,
                     recommendations |-> recommendations,
                     timeline |-> timeline]]

calculate_data_budget(params, now1, now2) ==
    LET data_rate_mbps == params.data_rate
        storage_capacity_mb == params.storage_capacity
        mission_duration_hours == params.mission_duration
        downlink_opportunities == params.downlink_opportunities
        data_rate_bps == data_rate_mbps * 1000 * 1000
        storage_capacity_bytes == storage_capacity_mb * MB_TO_BITS
        mission_duration_seconds == mission_duration_hours * 3600
        total_data_generated == MulDiv(data_rate_bps, mission_duration_seconds, MB_TO_BITS)
        total_downlink_capacity ==
            _calculate_downlink_capacity(downlink_opportunities, params)
    IN  IF max_raises(data_rate_bps, downlink_opportunities, mission_duration_hours, now1)
        THEN [raised |-> "ValueError", result |-> None,
              locals |-> [total_data_generated |-> total_data_generated,
                          total_downlink_capacity |-> total_downlink_capacity]]
        ELSE budget_result(
                 storage_capacity_bytes, total_data_generated, total_downlink_capacity,
                 _calculate_max_storage(data_rate_bps, downlink_opportunities,
                                        mission_duration_hours, now1),
                 _generate_timeline(data_rate_bps, downlink_opportunities,
                                    mission_duration_hours, now2))

(***************************************************************************)
(* DataBudgetCalculator.calculate                                          *)
(***************************************************************************)
\* calculate_days_until_full with >= for >
calculate_days_until_full_ge(data_generated, downlink_capacity, storage_available) ==
    IF data_generated >= downlink_capacity
    THEN LET daily_accumulation == data_generated - downlink_capacity
         IN  Frac(storage_available, daily_accumulation)
    ELSE None

\* "Calculate days until storage is full": the if/else that sets days_until_full
calculate_days_until_full(data_generated, downlink_capacity, storage_available) ==
    IF data_generated > downlink_capacity
    THEN LET daily_accumulation == data_generated - downlink_capacity
         IN  Frac(storage_available, daily_accumulation)
    ELSE None

calculate(data_rate, duty_cycle, downlink_rate, downlink_duration, storage_capacity, current_storage) ==
    LET data_generated ==
            MulDiv(MulDiv(data_rate, duty_cycle, 100), seconds_per_day, MB_TO_BITS)
        downlink_capacity == MulDiv(downlink_rate * downlink_duration, 3600, MB_TO_BITS)
        storage_required == current_storage + data_generated
        storage_available == storage_capacity - storage_required
        backlog == max(0, data_generated - downlink_capacity)
        days_until_full ==
            calculate_days_until_full(data_generated, downlink_capacity, storage_available)
        rec1 == IF backlog > 0
                THEN <<"Warning: Daily data generation exceeds downlink capacity">>
                ELSE <<>>
        rec2 == IF storage_available < 0
                THEN <<"Critical: Storage capacity exceeded">>
                ELSE IF 10 * storage_available < storage_capacity
                THEN <<"Warning: Less than 10% storage remaining">>
                ELSE <<>>
        rec3 == IF days_until_full # None /\ FracLess(days_until_full, 30)
                THEN <<"Warning: Storage will be full in days">>
                ELSE <<>>
    IN  DataBudgetResult(
            [data_generated |-> data_generated,
             downlink_capacity |-> downlink_capacity,
             storage_required |-> storage_required,
             storage_available |-> storage_available,
             backlog |-> backlog,
             days_until_full |-> days_until_full,
             recommendations |-> rec1 \o rec2 \o rec3])

(***************************************************************************)
(* DataBudgetModel (src/model/data_budget_model.py)                        *)
(***************************************************************************)
\* the dictionary DataBudgetModel.__init__ stores in self._parameters
initial_parameters ==
    [payload_data_rate |-> 0, storage_capacity |-> 0, downlink_rate |-> 0,
     pass_duration |-> 0, passes_per_day |-> 0]

\* self._parameters.update(params)
set_parameters(parameters, params) ==
    [k \in DOMAIN parameters \cup DOMAIN params |->
        IF k \in DOMAIN params THEN params[k] ELSE parameters[k]]

\* _validate_inputs without the storage_capacity == 0 check
_validate_inputs_no_storage_check(parameters) ==
    IF \E k \in DOMAIN parameters : parameters[k] < 0
    THEN "All parameters must be non-negative."
    ELSE IF parameters["payload_data_rate"] = 0
    THEN "Payload data rate must be greater than zero."
    ELSE NoError

\* the message of the ValueError _validate_inputs raises, or NoError
_validate_inputs(parameters) ==
    IF \E k \in DOMAIN parameters : parameters[k] < 0
    THEN "All parameters must be non-negative."
    ELSE IF parameters["storage_capacity"] = 0
    THEN "Storage capacity must be greater than zero."
    ELSE IF parameters["payload_data_rate"] = 0
    THEN "Payload data rate must be greater than zero."
    ELSE NoError

\* _generate_recommendations with needed_passes computed from gigabits
\* (generation * 1024) where the code converts gigabytes (generation * 8 * 1024)
_generate_recommendations_gigabits(parameters, backlog, generation, downlink) ==
    LET head == <<"Data budget improvements needed:">>
        needed_passes ==
            Frac(generation * 1024,
                 parameters["downlink_rate"] * parameters["pass_duration"] * 60)
        r1 == IF generation > downlink * 2
              THEN <<"Consider reducing payload data generation rate">> ELSE <<>>
        r2 == IF ~FracLess(needed_passes, parameters["passes_per_day"])
                 /\ ~FracEq(needed_passes, Frac(parameters["passes_per_day"], 1))
              THEN <<"Increase number of ground station passes">> ELSE <<>>
        r3 == IF parameters["downlink_rate"] < 10
              THEN <<"Consider upgrading downlink rate capability">> ELSE <<>>
        r4 == IF parameters["storage_capacity"] < backlog * 7
              THEN <<"Consider increasing onboard storage capacity">> ELSE <<>>
    IN  IF backlog > 0 THEN head \o r1 \o r2 \o r3 \o r4 ELSE head

\* _generate_recommendations, called with parameters that passed validation
\* and downlink_rate * pass_duration # 0 (the division raises otherwise)
_generate_recommendations(parameters, backlog, generation, downlink) ==
    LET head == <<"Data budget improvements needed:">>
        needed_passes ==
            Frac(generation * 8 * 1024,
                 parameters["downlink_rate"] * parameters["pass_duration"] * 60)
        r1 == IF generation > downlink * 2
              THEN <<"Consider reducing payload data generation rate">> ELSE <<>>
        r2 == IF ~FracLess(needed_passes, parameters["passes_per_day"])
                 /\ ~FracEq(needed_passes, Frac(parameters["passes_per_day"], 1))
              THEN <<"Increase number of ground station passes">> ELSE <<>>
        r3 == IF parameters["downlink_rate"] < 10
              THEN <<"Consider upgrading downlink rate capability">> ELSE <<>>
        r4 == IF parameters["storage_capacity"] < backlog * 7
              THEN <<"Consider increasing onboard storage capacity">> ELSE <<>>
    IN  IF backlog > 0 THEN head \o r1 \o r2 \o r3 \o r4 ELSE head

\* DataBudgetModel.calculate: the exception raised (or NoError), its message
\* and the DataBudgetResult returned (or None)
dbm_calculate(parameters) ==
    LET invalid == _validate_inputs(parameters)
        data_per_day == MulDiv(parameters["payload_data_rate"], 3600 * 24, 8 * 1024)
        downlink_per_pass ==
            MulDiv(parameters["downlink_rate"] * parameters["pass_duration"], 60, 8 * 1024)
        total_downlink == downlink_per_pass * parameters["passes_per_day"]
        daily_backlog == data_per_day - total_downlink
    IN  IF invalid # NoError
        THEN [raised |-> "ValueError", message |-> invalid, result |-> None]
        ELSE IF daily_backlog > 0
                /\ parameters["downlink_rate"] * parameters["pass_duration"] * 60 = 0
        THEN [raised |-> "ZeroDivisionError", message |-> "float division by zero",
              result |-> None]
        ELSE [raised |-> NoError, message |-> "",
              result |->
                [total_data_per_day |-> data_per_day,
                 available_downlink_per_day |-> total_downlink,
                 storage_backlog |-> daily_backlog,
                 storage_status |->
                     IF daily_backlog > 0 THEN "Warning: Storage will be full in days"
                     ELSE "Normal",
                 recommendations |->
                     IF daily_backlog > 0
                     THEN _generate_recommendations(parameters, daily_backlog,
                                                    data_per_day, total_downlink)
                     ELSE <<>>]]

(***************************************************************************)
(* Decibel arithmetic of the link-budget code                              *)
(*                                                                         *)
(* A float of the link budget is <<"fin", n>>, n thousandths of a dB (or   *)
(* of a dB-unit), <<"inf", 1>>, <<"inf", -1>> or <<"nan", 0>>: numpy's     *)
(* log10 gives -inf at 0 and nan below 0 (with a RuntimeWarning, not an    *)
(* exception), and IEEE arithmetic carries them on.  log10 is tabulated to *)
(* four decimals on the lattice the inputs are drawn from.                 *)
(***************************************************************************)
Fin(n) == <<"fin", n>>

PosInf == <<"inf", 1>>

NegInf == <<"inf", -1>>

NaN == <<"nan", 0>>

IsFinite(x) == x[1] = "fin"

\* -x
fneg(x) == IF x[1] = "nan" THEN NaN ELSE <<x[1], -x[2]>>

\* x + y; inf + -inf is nan
fadd(x, y) ==
    IF x[1] = "nan" \/ y[1] = "nan" THEN NaN
    ELSE IF x[1] = "inf" THEN (IF y[1] = "inf" /\ y[2] # x[2] THEN NaN ELSE x)
    ELSE IF y[1] = "inf" THEN y
    ELSE Fin(x[2] + y[2])

\* x - y
fsub(x, y) == fadd(x, fneg(y))

\* x >= 0, false for nan
fge0(x) == x[1] # "nan" /\ x[2] >= 0

\* x < c for a finite c in thousandths, false for nan
flt(x, c) == \/ x = NegInf
             \/ IsFinite(x) /\ x[2] < c

\* abs(x)
fabs(x) == IF x[1] = "nan" THEN NaN ELSE <<x[1], Abs(x[2])>>

\* n / d rounded to the nearest integer, ties to even, for n >= 0 and d > 0:
\* the rounding of the format specs .1f and .0f
round_div(n, d) ==
    LET q == n \div d
        r == n % d
    IN  IF 2 * r > d \/ (2 * r = d /\ q % 2 = 1) THEN q + 1 ELSE q

\* 10000 * log10(x), rounded, for the positive x of the input lattice
log10_1e4(x) ==
    CASE x = 1 -> 0
      [] x = 10 -> 10000
      [] x = 100 -> 20000
      [] x = 290 -> 24624
      [] x = 1000 -> 30000
      [] x = 5000 -> 36990
      [] x = 1000000 -> 60000

\* 10 * np.log10(x) in thousandths of a dB, for x = sign * magnitude
ten_log10(sign, magnitude) ==
    IF sign < 0 THEN NaN
    ELSE IF sign = 0 THEN NegInf
    ELSE Fin(log10_1e4(magnitude))

sign_of(x) == IF x < 0 THEN -1 ELSE IF x = 0 THEN 0 ELSE 1

\* 10000 * log10(4 * pi * 1000 * 1e9 / 3e8) = 10000 * log10(41887.902...)
LOG10_4PI_1E12_OVER_C_1E4 == 46221

\* -228.6, the Boltzmann constant in dBW/K/Hz as the model class writes it
BOLTZMANN_DB == -228600

(***************************************************************************)
(* LinkBudgetModel (src/model/link_budget_model.py)                        *)
(***************************************************************************)
\* the dictionary LinkBudgetModel.__init__ stores in self._parameters
lbm_initial_parameters ==
    [transmit_power |-> 0, transmit_antenna_gain |-> 0, receive_antenna_gain |-> 0,
     frequency |-> 0, distance |-> 5000, system_temperature |-> 290,
     receiver_bandwidth |-> 0, required_snr |-> 0, atmospheric_loss |-> 0]

\* _validate_inputs without the frequency check
lbm_validate_inputs_no_frequency_check(parameters) ==
    IF \A k \in DOMAIN parameters : parameters[k] = 0
    THEN "All input values are zero. Please enter valid values."
    ELSE IF parameters["distance"] = 0
    THEN "Free Space Path Loss cannot be zero."
    ELSE NoError

\* the message of the ValueError LinkBudgetModel._validate_inputs raises, or
\* NoError
lbm_validate_inputs(parameters) ==
    IF \A k \in DOMAIN parameters : parameters[k] = 0
    THEN "All input values are zero. Please enter valid values."
    ELSE IF parameters["frequency"] = 0
    THEN "Frequency cannot be zero."
    ELSE IF parameters["distance"] = 0
    THEN "Free Space Path Loss cannot be zero."
    ELSE NoError

\* 20 * np.log10(4 * np.pi * distance * 1000 / wavelength) with
\* wavelength = 3e8 / (frequency * 1e9): the argument of the logarithm is
\* 41887.9... * distance * frequency, and 0 where the wavelength is numpy's
\* inf (a Python float division by 0.0 raises before this is reached)
free_space_loss(frequency, distance) ==
    LET s == sign_of(frequency) * sign_of(distance)
    IN  IF s < 0 THEN NaN
        ELSE IF s = 0 THEN NegInf
        ELSE Fin(2 * (LOG10_4PI_1E12_OVER_C_1E4 + log10_1e4(Abs(distance))
                      + log10_1e4(Abs(frequency))))

\* _calculate_free_space_loss
_calculate_free_space_loss(parameters) ==
    free_space_loss(parameters["frequency"], parameters["distance"])

\* _calculate_received_power(fsl)
_calculate_received_power(parameters, fsl) ==
    fsub(fsub(Fin(1000 * (parameters["transmit_power"]
                          + parameters["transmit_antenna_gain"]
                          + parameters["receive_antenna_gain"])),
              fsl),
         Fin(1000 * parameters["atmospheric_loss"]))

\* _calculate_noise_power; receiver_bandwidth * 1e6 has the sign of
\* receiver_bandwidth and log10(b * 1e6) = 6 + log10(b)
_calculate_noise_power(parameters) ==
    fadd(fadd(Fin(BOLTZMANN_DB),
              ten_log10(sign_of(parameters["system_temperature"]),
                        Abs(parameters["system_temperature"]))),
         fadd(ten_log10(sign_of(parameters["receiver_bandwidth"]),
                        Abs(parameters["receiver_bandwidth"])),
              IF parameters["receiver_bandwidth"] > 0 THEN Fin(60000) ELSE Fin(0)))

\* _calculate_bit_error_rate: 0.5 * exp(-10 ** (x / 10) / 2) is kept as its
\* argument x = link_margin - snr, of which it is a one-to-one function
_calculate_bit_error_rate(snr, link_margin) ==
    [half_exp_of_minus_half_pow10_of_db |-> fsub(link_margin, snr)]

\* f"{x:.1f}" of a float in thousandths: tenths, or inf / nan
format_1f(x, divisor) ==
    IF IsFinite(x) THEN <<"fin", round_div(x[2], 100 * divisor)>> ELSE x

\* _get_status_and_recommendations(link_margin): <<status, recommendations>>;
\* the dash of the two status strings is written in ASCII, and a hint is its
\* text with the number formatted into it
_get_status_and_recommendations(parameters, link_margin) ==
    LET required_improvement == fabs(link_margin)
        h1 == IF parameters["transmit_power"] < 10
              THEN <<<<"Increase transmit power by dB", format_1f(required_improvement, 1)>>>>
              ELSE <<>>
        h2 == IF parameters["transmit_antenna_gain"] < 5
              THEN <<<<"Increase antenna gain by dBi", format_1f(required_improvement, 2)>>>>
              ELSE <<>>
        h3 == IF parameters["distance"] > 1000
              THEN <<<<"Reduce link distance by km",
                       <<"fin", round_div(parameters["distance"], 10)>>>>>>
              ELSE <<>>
    IN  IF fge0(link_margin)
        THEN <<" Link margin sufficient - stable connection expected", <<>>>>
        ELSE <<" Negative link margin - connection unstable",
               <<<<"To improve the link:", None>>>> \o h1 \o h2 \o h3>>

\* LinkBudgetModel.calculate: self._parameters after the call, the exception
\* raised (or NoError), its message and the LinkBudgetResult returned (or None)
lbm_calculate_result(parameters, received_power, noise_power) ==
    LET snr == fsub(received_power, noise_power)
        link_margin == fsub(snr, Fin(1000 * parameters["required_snr"]))
        sr == _get_status_and_recommendations(parameters, link_margin)
    IN  [received_power |-> received_power,
         noise_power |-> noise_power,
         carrier_to_noise |-> snr,
         bit_error_rate |-> _calculate_bit_error_rate(snr, link_margin),
         link_margin |-> link_margin,
         status |-> sr[1],
         recommendations |-> sr[2]]

\* a calculate that consumes the stored required_snr
lbm_calculate_consuming(parameters) ==
    LET invalid == lbm_validate_inputs(parameters)
    IN  IF invalid # NoError
        THEN [parameters |-> parameters, raised |-> "ValueError", message |-> invalid,
              result |-> None]
        ELSE [parameters |-> [parameters EXCEPT !["required_snr"] = 0],
              raised |-> NoError, message |-> "",
              result |-> lbm_calculate_result(parameters,
                            _calculate_received_power(parameters,
                                _calculate_free_space_loss(parameters)),
                            _calculate_noise_power(parameters))]

lbm_calculate(parameters) ==
    LET invalid == lbm_validate_inputs(parameters)
    IN  IF invalid # NoError
        THEN [parameters |-> parameters, raised |-> "ValueError", message |-> invalid,
              result |-> None]
        ELSE [parameters |-> parameters, raised |-> NoError, message |-> "",
              result |-> lbm_calculate_result(parameters,
                            _calculate_received_power(parameters,
                                _calculate_free_space_loss(parameters)),
                            _calculate_noise_power(parameters))]

\* the outcome of a sweep method: the exception raised (or NoError) and the
\* float returned (or None)
Returned(margin) == [raised |-> NoError, message |-> <<>>, margin |-> margin]

Raised(exception, message) == [raised |-> exception, message |-> message, margin |-> None]

\* _calculate_margin_vs_frequency(freq_ghz); freq_ghz is a Python float, or
\* the numpy.float64 that update_visualization takes from np.arange
_calculate_margin_vs_frequency(parameters, freq_ghz, numpy) ==
    IF freq_ghz = 0 /\ ~numpy
    THEN Raised("ZeroDivisionError", <<"float division by zero">>)
    ELSE Returned(_calculate_received_power(parameters,
                      free_space_loss(freq_ghz, parameters["distance"])))

\* _calculate_margin_vs_distance(distance_km); the stored frequency is a
\* Python float
_calculate_margin_vs_distance(parameters, distance_km) ==
    IF parameters["frequency"] = 0
    THEN Raised("ZeroDivisionError", <<"float division by zero">>)
    ELSE Returned(_calculate_received_power(parameters,
                      free_space_loss(parameters["frequency"], distance_km)))

\* mod_penalties.get(scheme, 0)
mod_penalties(scheme) ==
    CASE scheme = "QPSK" -> 0
      [] scheme = "8PSK" -> -3
      [] scheme = "16QAM" -> -6
      [] scheme = "64QAM" -> -9
      [] OTHER -> 0

\* _calculate_margin_vs_modulation(mod_index, scheme), mod_index even or odd:
\* mod_index * 0.5 is 500 thousandths per unit
_calculate_margin_vs_modulation(parameters, mod_index, scheme) ==
    LET base_margin == _calculate_margin_vs_distance(parameters, parameters["distance"])
    IN  IF base_margin.raised # NoError THEN base_margin
        ELSE Returned(fsub(fadd(base_margin.margin, Fin(1000 * mod_penalties(scheme))),
                           Fin(500 * mod_index)))

\* the dispatch of calculate_margin_vs_parameter; modulation is None or the
\* one-element tuple of a string, the empty string included
margin_vs_parameter(parameters, param_type, value, numpy, modulation) ==
    IF param_type = "Frequency"
    THEN _calculate_margin_vs_frequency(parameters, value, numpy)
    ELSE IF param_type = "Distance"
    THEN _calculate_margin_vs_distance(parameters, value)
    ELSE IF param_type = "Modulation" /\ modulation # None /\ modulation # <<"">>
    THEN _calculate_margin_vs_modulation(parameters, value, modulation[1])
    ELSE Raised("ValueError", <<"Invalid parameter type: ", param_type>>)

\* a sweep that stores the swept value to reuse calculate's pipeline
calculate_margin_vs_parameter_storing(parameters, param_type, value, numpy, modulation) ==
    [parameters |->
        IF param_type = "Frequency" THEN [parameters EXCEPT !["frequency"] = value]
        ELSE IF param_type = "Distance" THEN [parameters EXCEPT !["distance"] = value]
        ELSE parameters,
     out |-> margin_vs_parameter(parameters, param_type, value, numpy, modulation)]

\* LinkBudgetModel.calculate_margin_vs_parameter: self._parameters after the
\* call and the outcome
calculate_margin_vs_parameter(parameters, param_type, value, numpy, modulation) ==
    [parameters |-> parameters,
     out |-> margin_vs_parameter(parameters, param_type, value, numpy, modulation)]

(***************************************************************************)
(* LinkBudgetCalculator (src/model/link_budget.py)                         *)
(***************************************************************************)
\* 10000 * log10(1.380649e-23), rounded: the Boltzmann constant k
LOG10_K_1E4 == -228599

\* the body of LinkBudgetCalculator.calculate after the propagation-model
\* check.  The four powers of ten multiply to a positive float whose
\* 10 * log10 + 30 is tx_power + tx_antenna_gain + rx_antenna_gain - path_loss;
\* the BER 0.5 * (1 - sqrt(s / (1 + s))), s = 10 ** (carrier_to_noise / 10), is
\* kept as its argument, and is nan where s is inf
lbc_awgn(tx_power, tx_antenna_gain, rx_antenna_gain, path_loss, noise_temperature, bandwidth) ==
    LET received_power_db == Fin(1000 * (tx_power + tx_antenna_gain + rx_antenna_gain - path_loss))
        s == sign_of(noise_temperature) * sign_of(bandwidth)
        noise_power_db ==
            IF s < 0 THEN NaN
            ELSE IF s = 0 THEN NegInf
            ELSE Fin(LOG10_K_1E4 + log10_1e4(Abs(noise_temperature))
                     + log10_1e4(Abs(bandwidth)) + 30000)
        carrier_to_noise == fsub(received_power_db, noise_power_db)
        required_cn == 10
    IN  [raised |-> NoError, message |-> <<>>,
         computed |-> {"received_power", "carrier_to_noise", "bit_error_rate", "margin"},
         result |->
            [received_power |-> received_power_db,
             carrier_to_noise |-> carrier_to_noise,
             bit_error_rate |->
                 IF carrier_to_noise = PosInf \/ carrier_to_noise = NaN THEN [nan |-> TRUE]
                 ELSE [half_of_one_minus_sqrt_ratio_at_db |-> carrier_to_noise],
             margin |-> fsub(carrier_to_noise, Fin(1000 * required_cn))]]

\* the models LinkBudgetCalculator.__init__ lists
propagation_models == <<"AWGN", "Rayleigh", "Rician", "Log-normal">>

\* a calculate that rejects only the models the calculator does not list
lbc_calculate_listed(frequency, tx_power, tx_antenna_gain, rx_antenna_gain, path_loss, noise_temperature, bandwidth, propagation_model) ==
    IF \A i \in DOMAIN propagation_models : propagation_models[i] # propagation_model
    THEN [raised |-> "NotImplementedError",
          message |-> <<propagation_model, " propagation model not implemented">>,
          computed |-> {}, result |-> None]
    ELSE lbc_awgn(tx_power, tx_antenna_gain, rx_antenna_gain, path_loss,
                  noise_temperature, bandwidth)

\* LinkBudgetCalculator.calculate: the exception raised (or NoError), its
\* message, the result fields computed before the call ended and the
\* LinkBudgetResult returned (or None); frequency is not read
lbc_calculate(frequency, tx_power, tx_antenna_gain, rx_antenna_gain, path_loss, noise_temperature, bandwidth, propagation_model) ==
    IF propagation_model # "AWGN"
    THEN [raised |-> "NotImplementedError",
          message |-> <<propagation_model, " propagation model not implemented">>,
          computed |-> {}, result |-> None]
    ELSE lbc_awgn(tx_power, tx_antenna_gain, rx_antenna_gain, path_loss,
                  noise_temperature, bandwidth)

(***************************************************************************)
(* LinkBudgetController (src/controller/link_budget_controller.py)         *)
(***************************************************************************)
\* the model_params dictionary built from the view's parameters
model_params(view_params) ==
    [transmit_power |-> view_params.tx_power_dbm,
     transmit_antenna_gain |-> view_params.tx_gain_dbi,
     receive_antenna_gain |-> view_params.rx_gain_dbi,
     frequency |-> view_params.frequency_hz,
     distance |-> view_params.distance_km,
     system_temperature |-> view_params.temperature_k,
     receiver_bandwidth |-> view_params.bandwidth_hz,
     required_snr |-> view_params.required_ebno_db,
     atmospheric_loss |-> view_params.rx_implementation_loss_db]

\* the five values of view_result and of the report's results_data, each a
\* float formatted with .1f in front of its unit
result_rows(view_params, result) ==
    [eirp |-> format_1f(Fin(1000 * (view_params.tx_power_dbm + view_params.tx_gain_dbi)), 1),
     path_loss |-> format_1f(result.noise_power, 1),
     received_power |-> format_1f(result.received_power, 1),
     cn0 |-> format_1f(result.carrier_to_noise, 1),
     link_margin |-> format_1f(result.link_margin, 1)]

\* LinkBudgetController.calculate_link_budget: the model's parameters after
\* the call, the outcome of the model's calculate, and what the view is
\* given (the result dictionary or an error box); collected is false when
\* the view's get_parameters returned None
calculate_link_budget(parameters, collected, view_params) ==
    IF ~collected
    THEN [parameters |-> parameters, calculated |-> FALSE,
          shown |-> [kind |-> "error", title |-> "Calculation Error"]]
    ELSE LET r == lbm_calculate(set_parameters(parameters, model_params(view_params)))
         IN  IF r.raised = "ValueError"
             THEN [parameters |-> r.parameters, calculated |-> TRUE, outcome |-> r,
                   shown |-> [kind |-> "error", title |-> "Invalid Input",
                              message |-> r.message]]
             ELSE [parameters |-> r.parameters, calculated |-> TRUE, outcome |-> r,
                   shown |-> [kind |-> "results",
                              rows |-> result_rows(view_params, r.result)]]

\* LinkBudgetController.generate_pdf_report; file_path is what the view's
\* get_save_filename returned, "" when the dialog was cancelled
generate_pdf_report(parameters, collected, view_params, file_path) ==
    IF ~collected
    THEN [parameters |-> parameters, calculated |-> FALSE,
          shown |-> [kind |-> "error", title |-> "PDF Generation Error"]]
    ELSE LET r == lbm_calculate(set_parameters(parameters, model_params(view_params)))
         IN  IF r.raised # NoError
             THEN [parameters |-> r.parameters, calculated |-> TRUE, outcome |-> r,
                   shown |-> [kind |-> "error", title |-> "PDF Generation Error",
                              message |-> r.message]]
             ELSE IF file_path = ""
             THEN [parameters |-> r.parameters, calculated |-> TRUE, outcome |-> r,
                   shown |-> [kind |-> "nothing"]]
             ELSE [parameters |-> r.parameters, calculated |-> TRUE, outcome |-> r,
                   shown |-> [kind |-> "report", file_path |-> file_path,
                              rows |-> result_rows(view_params, r.result)]]

(***************************************************************************)
(* ApplicationManager (src/run.py)                                         *)
(***************************************************************************)
\* a window attribute that is None
NoWindow == [exists |-> FALSE, visible |-> FALSE]

\* a window object just constructed: a Qt widget is hidden until shown
NewWindow == [exists |-> TRUE, visible |-> FALSE]

\* the attributes ApplicationManager.__init__ sets, with the number of
\* window objects of each class constructed since then (or since cleanup),
\* whether home_controller is set, and the page of the main window's stacked
\* widget
initial_app ==
    [login_window |-> NoWindow, home_window |-> NoWindow, main_window |-> NoWindow,
     created |-> [login_window |-> 0, home_window |-> 0, main_window |-> 0],
     home_controller |-> FALSE,
     current_module |-> "none"]

\* "if self.w: self.w.hide()"
hide(window) == IF window.exists THEN [window EXCEPT !.visible = FALSE] ELSE window

\* "if not self.w: self.w = W(...)" then "self.w.show()", on an application
\* whose other windows are hidden already; the method returns True, or False
\* when the constructor raises
create_and_show(app, name, module, fails) ==
    IF app[name].exists
    THEN [app |-> [app EXCEPT ![name].visible = TRUE], ok |-> TRUE]
    ELSE IF fails
    THEN [app |-> app, ok |-> FALSE]
    ELSE [app |-> [app EXCEPT ![name] = [NewWindow EXCEPT !.visible = TRUE],
                              !.created[name] = @ + 1,
                              !.current_module = module],
          ok |-> TRUE]

\* ApplicationManager.show_login
show_login(app, fails) ==
    create_and_show([app EXCEPT !.main_window = hide(@), !.home_window = hide(@)],
                    "login_window", app.current_module, fails)

\* the rest of show_home on an application whose other windows are hidden
\* already; fails names the constructor that raises, if one does: after
\* "controller" the HomeWindow exists, hidden, without its HomeController
create_and_show_home(app, fails) ==
    IF app.home_window.exists
    THEN [app |-> [app EXCEPT !.home_window.visible = TRUE], ok |-> TRUE]
    ELSE IF fails = "window"
    THEN [app |-> app, ok |-> FALSE]
    ELSE IF fails = "controller"
    THEN [app |-> [app EXCEPT !.home_window = NewWindow, !.created.home_window = @ + 1],
          ok |-> FALSE]
    ELSE [app |-> [app EXCEPT !.home_window = [NewWindow EXCEPT !.visible = TRUE],
                              !.created.home_window = @ + 1,
                              !.home_controller = TRUE],
          ok |-> TRUE]

\* a show_home that leaves the main window as it is
show_home_keeping_main(app, fails) ==
    create_and_show_home([app EXCEPT !.login_window = hide(@)], fails)

\* ApplicationManager.show_home
show_home(app, fails) ==
    create_and_show_home([app EXCEPT !.login_window = hide(@), !.main_window = hide(@)], fails)

\* ApplicationManager.show_main; a new MainWindow shows the first page of its
\* stacked widget, the link budget view
show_main(app, fails) ==
    create_and_show([app EXCEPT !.login_window = hide(@), !.home_window = hide(@)],
                    "main_window", "link_budget", fails)

\* MainWindow.switch_to_module
switch_to_module(app, module_name) ==
    IF module_name \in {"link_budget", "data_budget"}
    THEN [app EXCEPT !.current_module = module_name]
    ELSE app

\* ApplicationManager.load_module: it ends without an error of its own when
\* show_main returned True
load_module(app, module_name, fails) ==
    LET r == show_main(app, fails)
    IN  IF r.app.main_window.exists
        THEN [app |-> switch_to_module(r.app, module_name), ok |-> r.ok]
        ELSE r

\* ApplicationManager.cleanup
cleanup(app) == initial_app

\* MainWindow.go_back_to_home with the answer Yes: hide, then the
\* navigate_to_home signal runs show_home
go_back_to_home(app, fails) == show_home([app EXCEPT !.main_window = hide(@)], fails)

\* the module each analysis button of the home window navigates to
button_modules ==
    [link_budget_analysis |-> "link_budget", data_budget_analysis |-> "data_budget"]

\* HomeController.open_module: the navigate_to_module signal runs load_module
open_module(app, module_name, fails) ==
    IF module_name \in DOMAIN button_modules
    THEN load_module(app, button_modules[module_name], fails)
    ELSE [app |-> app, ok |-> TRUE]

(***************************************************************************)
(* Inputs of the model                                                     *)
(***************************************************************************)
Times == 0..MaxTime

\* a downlink window: start and end timestamps, start before end, and
\* possibly its own 'downlink_rate'
WindowRates == {2 * DEFAULT_DOWNLINK_RATE}

Windows ==
    {[start |-> a, end |-> b] : a \in Times, b \in Times} \cup
    {[start |-> a, end |-> b, downlink_rate |-> r] : a \in Times, b \in Times, r \in WindowRates}

ProperWindows == {w \in Windows : w.start < w.end}

OpportunityLists ==
    UNION {[1..n -> ProperWindows] : n \in 0..MaxWindows}

BudgetOpportunityLists ==
    UNION {[1..n -> ProperWindows] : n \in 0..MaxBudgetWindows}

\* datetime.now() in a call, and in a later call of the same request
Clock == {0, 1}

LaterClock(now) == {now, now + 1}

DataRatesMbps == {0, 1, 2}

DataRatesBps == {r * 1000 * 1000 : r \in DataRatesMbps}

MissionDurations == {0, HoursPerTick, 2 * HoursPerTick}

StorageCapacitiesMB == {0, 1, 50}

DataBudgetParams ==
    {[data_rate |-> r, storage_capacity |-> c, mission_duration |-> h,
      downlink_opportunities |-> o] :
        r \in DataRatesMbps, c \in StorageCapacitiesMB, h \in MissionDurations,
        o \in BudgetOpportunityLists}
    \cup
    {[data_rate |-> r, storage_capacity |-> c, mission_duration |-> h,
      downlink_opportunities |-> o, downlink_rate |-> d] :
        r \in DataRatesMbps, c \in StorageCapacitiesMB, h \in MissionDurations,
        o \in BudgetOpportunityLists, d \in WindowRates}

\* DataBudgetCalculator.calculate's arguments: bits/second, percent, hours, MB
CalcDataRates == {0, 3276800, 6553600}
CalcDutyCycles == {0, 50, 100}
CalcDownlinkRates == {0, 39321600}
CalcDownlinkDurations == {0, 1, 2, 3}
CalcStorage == {0, 16875, 67500, 675000}
CalcCurrentStorage == {0, 16875, 67500}

\* DataBudgetModel parameters: Mbps, GB, Mbps, minutes, count; and a key the
\* model does not read
ParameterValues ==
    [payload_data_rate |-> {-64, 0, 64, 128},
     storage_capacity |-> {-1, 0, 675, 6750},
     downlink_rate |-> {-8, 0, 8, 64},
     pass_duration |-> {-256, 0, 256},
     passes_per_day |-> {-45, 0, 45, 90},
     duty_cycle |-> {-1, 100}]

SetParametersInputs ==
    UNION {{[x \in {k} |-> v] : v \in ParameterValues[k]} : k \in DOMAIN ParameterValues}
    \cup
    {[payload_data_rate |-> a, storage_capacity |-> b, downlink_rate |-> c,
      pass_duration |-> d, passes_per_day |-> e] :
        a \in {64, 128}, b \in {675, 6750}, c \in {8, 64}, d \in {256}, e \in {0, 45, 90}}

\* LinkBudgetModel parameters: dBW, dBi, dBi, GHz, km, K, MHz, dB, dB
LinkParameterValues ==
    [transmit_power |-> {0, 24, 30},
     transmit_antenna_gain |-> {0, 6},
     receive_antenna_gain |-> {0, 3},
     frequency |-> {0, 1, 10},
     distance |-> {0, 1000, 5000},
     system_temperature |-> {0, 290},
     receiver_bandwidth |-> {0, 1},
     required_snr |-> {0, 10},
     atmospheric_loss |-> {0, 2}]

\* the nine-key dictionaries a controller passes
LinkFullParams ==
    {[transmit_power |-> p, transmit_antenna_gain |-> 0, receive_antenna_gain |-> 0,
      frequency |-> 1, distance |-> d, system_temperature |-> 290,
      receiver_bandwidth |-> 1, required_snr |-> 0, atmospheric_loss |-> 0] :
        p \in {24, 30}, d \in {1000, 5000}}

LinkSetParametersInputs ==
    UNION {{[x \in {k} |-> v] : v \in LinkParameterValues[k]} : k \in DOMAIN LinkParameterValues}
    \cup LinkFullParams

\* the arguments of calculate_margin_vs_parameter: numpy says whether value
\* is a numpy.float64 (as from np.arange) or a Python float
SweepInputs ==
    {[param_type |-> "Frequency", value |-> v, numpy |-> n, modulation |-> None] :
        v \in {0, 1, 10}, n \in BOOLEAN}
    \cup
    {[param_type |-> "Distance", value |-> v, numpy |-> FALSE, modulation |-> None] :
        v \in {0, 1000, 5000}}
    \cup
    {[param_type |-> "Modulation", value |-> v, numpy |-> FALSE, modulation |-> m] :
        v \in {0, 3}, m \in {None, <<"">>, <<"8PSK">>, <<"BPSK">>}}
    \cup
    {[param_type |-> "Power", value |-> 1, numpy |-> FALSE, modulation |-> None]}

\* the arguments of LinkBudgetCalculator.calculate: Hz, dBm, dBi, dBi, dB, K, Hz
LbcFrequencies == {0, 1000 * 1000 * 1000}
LbcPowers == {0, 30}
LbcGains == {0, 10}
LbcPathLosses == {100, 150}
LbcTemperatures == {0, 290}
LbcBandwidths == {0, 1000 * 1000}
LbcPropagationModels == {"AWGN", "Rayleigh", "Rician", "Log-normal", "Nakagami"}

\* the full dictionaries two concurrent callers pass to a DataBudgetModel
ConcurrentDataParams ==
    {[payload_data_rate |-> a, storage_capacity |-> 675, downlink_rate |-> c,
      pass_duration |-> 256, passes_per_day |-> 45] : a \in {64, 128}, c \in {8, 64}}

\* what LinkBudgetView.get_parameters returns: dBm, dBi, dBi, dB, dB, Hz, km,
\* K, the bandwidth box, dB
ViewParams ==
    {[tx_power_dbm |-> p, tx_gain_dbi |-> 0, rx_gain_dbi |-> g, rx_noise_figure_db |-> 2,
      rx_implementation_loss_db |-> l, frequency_hz |-> f, distance_km |-> d,
      temperature_k |-> t, bandwidth_hz |-> b, required_ebno_db |-> e] :
        p \in {0, 24, 30}, g \in {0, 3}, l \in {0, 2}, f \in {0, 1000 * 1000},
        d \in {1000, 5000}, t \in {290}, b \in {0, 1}, e \in {0, 10}}

\* what LinkBudgetView.get_save_filename returns
SaveFilenames == {"", "link_budget_report.pdf"}

\* the constructor of show_home that raises
HomeFailures == {"none", "window", "controller"}

\* the module names load_module is given and the data-module properties of
\* the home window's buttons
ModuleNames == {"link_budget", "data_budget", "thermal"}
ButtonModules == {"link_budget_analysis", "data_budget_analysis", "power_budget_analysis"}

(***************************************************************************)
(* State machine                                                           *)
(***************************************************************************)
NoCall == [op |-> "none"]

dbcVars == <<call>>
dbmVars == <<dbmParameters, dbmCall>>
lbmVars == <<lbmParameters, lbmCall>>
callerVars == <<shared, caller>>
uiVars == <<linkView, manager, appCall>>

Callers == {1, 2}

Init ==
    /\ call = NoCall
    /\ dbmParameters = initial_parameters
    /\ dbmCall = NoCall
    /\ lbmParameters = lbm_initial_parameters
    /\ lbmCall = NoCall
    /\ shared = "none"
    /\ caller = [i \in Callers |-> [pc |-> "idle"]]
    /\ linkView = NoCall
    /\ manager = initial_app
    /\ appCall = NoCall

\* a caller runs DataBudgetCalculator._generate_timeline
GenerateTimeline ==
    /\ call = NoCall
    /\ \E r \in DataRatesBps, o \in OpportunityLists, h \in MissionDurations, now \in Clock :
        /\ call' = [op |-> "_generate_timeline",
                    data_rate_bps |-> r, opportunities |-> o, mission_duration_hours |-> h,
                    now |-> now,
                    sorted |-> sorted_by_start(o),
                    timeline |-> _generate_timeline(r, o, h, now)]
        /\ UNCHANGED <<dbmVars, lbmVars, callerVars, uiVars>>

\* a caller runs DataBudgetCalculator.calculate_data_budget
CalculateDataBudget ==
    /\ call = NoCall
    /\ \E params \in DataBudgetParams, now1 \in Clock :
        \E now2 \in LaterClock(now1) :
            /\ call' = [op |-> "calculate_data_budget", params |-> params,
                        now1 |-> now1, now2 |-> now2,
                        out |-> calculate_data_budget(params, now1, now2)]
            /\ UNCHANGED <<dbmVars, lbmVars, callerVars, uiVars>>

\* a caller runs DataBudgetCalculator.calculate
Calculate ==
    /\ call = NoCall
    /\ \E data_rate \in CalcDataRates, duty_cycle \in CalcDutyCycles,
       downlink_rate \in CalcDownlinkRates, downlink_duration \in CalcDownlinkDurations,
       storage_capacity \in CalcStorage, current_storage \in CalcCurrentStorage :
        /\ call' = [op |-> "calculate",
                    data_rate |-> data_rate, duty_cycle |-> duty_cycle,
                    downlink_rate |-> downlink_rate,
                    downlink_duration |-> downlink_duration,
                    storage_capacity |-> storage_capacity,
                    current_storage |-> current_storage,
                    out |-> calculate(data_rate, duty_cycle, downlink_rate,
                                      downlink_duration, storage_capacity, current_storage)]
        /\ UNCHANGED <<dbmVars, lbmVars, callerVars, uiVars>>

\* the caller has taken the outcome of the call; the calculator keeps nothing
Return ==
    /\ call # NoCall
    /\ call' = NoCall
    /\ UNCHANGED <<dbmVars, lbmVars, callerVars, uiVars>>

NextCalculator == GenerateTimeline \/ CalculateDataBudget \/ Calculate \/ Return

\* the stateless calculator, called any number of times, one call at a time
SpecCalculator == Init /\ [][NextCalculator]_vars

\* DataBudgetModel.set_parameters(params)
SetParameters ==
    \E params \in SetParametersInputs :
        /\ dbmParameters' = set_parameters(dbmParameters, params)
        /\ dbmCall' = [op |-> "set_parameters", params |-> params]
        /\ UNCHANGED <<dbcVars, lbmVars, callerVars, uiVars>>

\* DataBudgetModel.calculate()
ModelCalculate ==
    LET r == dbm_calculate(dbmParameters)
    IN  /\ dbmCall' = [op |-> "calculate", raised |-> r.raised, message |-> r.message,
                       result |-> r.result]
        /\ UNCHANGED <<dbmParameters, call, lbmVars, callerVars, uiVars>>

NextModel == SetParameters \/ ModelCalculate

\* one DataBudgetModel instance under any sequence of its two operations
SpecModel == Init /\ [][NextModel]_vars

\* a caller runs LinkBudgetCalculator.calculate
LinkCalculatorCalculate ==
    /\ call = NoCall
    /\ \E frequency \in LbcFrequencies, tx_power \in LbcPowers, tx_antenna_gain \in LbcGains,
          rx_antenna_gain \in LbcGains, path_loss \in LbcPathLosses,
          noise_temperature \in LbcTemperatures, bandwidth \in LbcBandwidths,
          propagation_model \in LbcPropagationModels :
        /\ call' = [op |-> "LinkBudgetCalculator.calculate",
                    frequency |-> frequency, tx_power |-> tx_power,
                    tx_antenna_gain |-> tx_antenna_gain,
                    rx_antenna_gain |-> rx_antenna_gain, path_loss |-> path_loss,
                    noise_temperature |-> noise_temperature, bandwidth |-> bandwidth,
                    propagation_model |-> propagation_model,
                    out |-> lbc_calculate(frequency, tx_power, tx_antenna_gain,
                                          rx_antenna_gain, path_loss, noise_temperature,
                                          bandwidth, propagation_model)]
        /\ UNCHANGED <<dbmVars, lbmVars, callerVars, uiVars>>

NextLinkCalculator == LinkCalculatorCalculate \/ Return

\* the stateless LinkBudgetCalculator, called any number of times
SpecLinkCalculator == Init /\ [][NextLinkCalculator]_vars

\* LinkBudgetModel.set_parameters(params)
LinkSetParameters ==
    \E params \in LinkSetParametersInputs :
        /\ lbmParameters' = set_parameters(lbmParameters, params)
        /\ lbmCall' = [op |-> "set_parameters"]
        /\ UNCHANGED <<dbcVars, dbmVars, callerVars, uiVars>>

\* LinkBudgetModel.calculate(); again tells that the call before it on this
\* instance was calculate() too
LinkCalculate ==
    LET r == lbm_calculate(lbmParameters)
    IN  /\ lbmParameters' = r.parameters
        /\ lbmCall' = [op |-> "calculate", again |-> lbmCall.op = "calculate",
                       raised |-> r.raised, message |-> r.message, result |-> r.result]
        /\ UNCHANGED <<dbcVars, dbmVars, callerVars, uiVars>>

\* LinkBudgetModel.calculate_margin_vs_parameter(param_type, value, modulation)
LinkMarginVsParameter ==
    \E a \in SweepInputs :
        LET r == calculate_margin_vs_parameter(lbmParameters, a.param_type, a.value,
                                               a.numpy, a.modulation)
        IN  /\ lbmParameters' = r.parameters
            /\ lbmCall' = [op |-> "calculate_margin_vs_parameter",
                           param_type |-> a.param_type, value |-> a.value,
                           numpy |-> a.numpy, modulation |-> a.modulation,
                           out |-> r.out]
            /\ UNCHANGED <<dbcVars, dbmVars, callerVars, uiVars>>

NextLink == LinkSetParameters \/ LinkCalculate \/ LinkMarginVsParameter

\* one LinkBudgetModel instance under any sequence of its three operations
SpecLink == Init /\ [][NextLink]_vars

\* the operations of a DataBudgetModel instance, the only model in use
EitherData == lbmCall = NoCall /\ NextModel

\* the operations of a LinkBudgetModel instance, the only model in use
EitherLink == dbmCall = NoCall /\ NextLink

NextEither == EitherData \/ EitherLink

\* one model instance of either class under any sequence of its operations
SpecEither == Init /\ [][NextEither]_vars

\* two callers are handed the same LinkBudgetModel instance, each with the
\* full parameter dictionary it will set
ShareLinkModel ==
    /\ shared = "none"
    /\ \E p \in [Callers -> LinkFullParams] :
        caller' = [i \in Callers |-> [pc |-> "set_parameters", p |-> p[i]]]
    /\ shared' = "LinkBudgetModel"
    /\ UNCHANGED <<dbcVars, dbmVars, lbmVars, uiVars>>

\* two callers are handed the same DataBudgetModel instance
ShareDataModel ==
    /\ shared = "none"
    /\ \E p \in [Callers -> ConcurrentDataParams] :
        caller' = [i \in Callers |-> [pc |-> "set_parameters", p |-> p[i]]]
    /\ shared' = "DataBudgetModel"
    /\ UNCHANGED <<dbcVars, dbmVars, lbmVars, uiVars>>

\* caller i runs self._model.set_parameters(p_i)
CallerSetParameters(i) ==
    /\ caller[i].pc = "set_parameters"
    /\ caller' = [caller EXCEPT ![i].pc = "calculate"]
    /\ IF shared = "LinkBudgetModel"
       THEN /\ lbmParameters' = set_parameters(lbmParameters, caller[i].p)
            /\ UNCHANGED <<dbmParameters>>
       ELSE /\ dbmParameters' = set_parameters(dbmParameters, caller[i].p)
            /\ UNCHANGED <<lbmParameters>>
    /\ UNCHANGED <<call, dbmCall, lbmCall, shared, uiVars>>

\* caller i runs result = self._model.calculate()
CallerCalculate(i) ==
    /\ caller[i].pc = "calculate"
    /\ IF shared = "LinkBudgetModel"
       THEN LET r == lbm_calculate(lbmParameters)
            IN  /\ lbmParameters' = r.parameters
                /\ caller' = [caller EXCEPT ![i] =
                        [pc |-> "done", p |-> caller[i].p, raised |-> r.raised,
                         message |-> r.message, result |-> r.result]]
                /\ UNCHANGED <<dbmParameters>>
       ELSE LET r == dbm_calculate(dbmParameters)
            IN  /\ caller' = [caller EXCEPT ![i] =
                        [pc |-> "done", p |-> caller[i].p, raised |-> r.raised,
                         message |-> r.message, result |-> r.result]]
                /\ UNCHANGED <<dbmParameters, lbmParameters>>
    /\ UNCHANGED <<call, dbmCall, lbmCall, shared, uiVars>>

NextCallers ==
    \/ ShareLinkModel
    \/ ShareDataModel
    \/ \E i \in Callers : CallerSetParameters(i)
    \/ \E i \in Callers : CallerCalculate(i)

\* two callers, each running set_parameters(p_i) then calculate() on one
\* shared model instance, their steps interleaved in any order
SpecCallers == Init /\ [][NextCallers]_vars

\* the user presses Calculate: LinkBudgetController.calculate_link_budget
CalculateLinkBudget ==
    \E collected \in BOOLEAN, view_params \in ViewParams :
        LET r == calculate_link_budget(lbmParameters, collected, view_params)
        IN  /\ lbmParameters' = r.parameters
            /\ lbmCall' = IF r.calculated
                          THEN [op |-> "calculate", again |-> FALSE,
                                raised |-> r.outcome.raised, message |-> r.outcome.message,
                                result |-> r.outcome.result]
                          ELSE lbmCall
            /\ linkView' = [op |-> "calculate_link_budget", shown |-> r.shown]
            /\ UNCHANGED <<dbcVars, dbmVars, callerVars, manager, appCall>>

\* the user asks for the report: LinkBudgetController.generate_pdf_report
GeneratePdfReport ==
    \E collected \in BOOLEAN, view_params \in ViewParams, file_path \in SaveFilenames :
        LET r == generate_pdf_report(lbmParameters, collected, view_params, file_path)
        IN  /\ lbmParameters' = r.parameters
            /\ lbmCall' = IF r.calculated
                          THEN [op |-> "calculate", again |-> FALSE,
                                raised |-> r.outcome.raised, message |-> r.outcome.message,
                                result |-> r.outcome.result]
                          ELSE lbmCall
            /\ linkView' = [op |-> "generate_pdf_report", shown |-> r.shown]
            /\ UNCHANGED <<dbcVars, dbmVars, callerVars, manager, appCall>>

NextLinkController == CalculateLinkBudget \/ GeneratePdfReport

\* the link budget controller on its model, driven by the view's two buttons
SpecLinkController == Init /\ [][NextLinkController]_vars

appFrame == <<dbcVars, dbmVars, lbmVars, callerVars, linkView>>

ShowLogin ==
    \E fails \in BOOLEAN :
        LET r == show_login(manager, fails)
        IN  /\ manager' = r.app
            /\ appCall' = [op |-> "show_login", ok |-> r.ok]
            /\ UNCHANGED appFrame

ShowHome ==
    \E fails \in HomeFailures :
        LET r == show_home(manager, fails)
        IN  /\ manager' = r.app
            /\ appCall' = [op |-> "show_home", ok |-> r.ok]
            /\ UNCHANGED appFrame

ShowMain ==
    \E fails \in BOOLEAN :
        LET r == show_main(manager, fails)
        IN  /\ manager' = r.app
            /\ appCall' = [op |-> "show_main", ok |-> r.ok]
            /\ UNCHANGED appFrame

LoadModule ==
    \E module_name \in ModuleNames, fails \in BOOLEAN :
        LET r == load_module(manager, module_name, fails)
        IN  /\ manager' = r.app
            /\ appCall' = [op |-> "load_module", module_name |-> module_name, ok |-> r.ok]
            /\ UNCHANGED appFrame

\* the user presses Back to Home in the visible main window and answers Yes
GoBackToHome ==
    /\ manager.main_window.visible
    /\ \E fails \in HomeFailures :
        LET r == go_back_to_home(manager, fails)
        IN  /\ manager' = r.app
            /\ appCall' = [op |-> "show_home", ok |-> r.ok]
            /\ UNCHANGED appFrame

\* the user presses an analysis button of the visible home window
OpenModule ==
    /\ manager.home_window.visible
    /\ manager.home_controller
    /\ \E module_name \in ButtonModules, fails \in BOOLEAN :
        LET r == open_module(manager, module_name, fails)
        IN  /\ manager' = r.app
            /\ appCall' = IF module_name \in DOMAIN button_modules
                          THEN [op |-> "load_module",
                                module_name |-> button_modules[module_name], ok |-> r.ok]
                          ELSE appCall
            /\ UNCHANGED appFrame

Cleanup ==
    /\ manager' = cleanup(manager)
    /\ appCall' = [op |-> "cleanup", ok |-> TRUE]
    /\ UNCHANGED appFrame

NextApp ==
    ShowLogin \/ ShowHome \/ ShowMain \/ LoadModule \/ GoBackToHome \/ OpenModule \/ Cleanup

\* the ApplicationManager under any sequence of its navigation calls
SpecApp == Init /\ [][NextApp]_vars

(***************************************************************************)
(* Properties                                                              *)
(***************************************************************************)
IsTimelineCall == call.op = "_generate_timeline"

IsBudgetCall == call.op = "calculate_data_budget"

\* calculate_data_budget got past _calculate_max_storage: its locals are set
BudgetComputed == IsBudgetCall /\ call.out.raised # "ValueError"

\* the timeline variant's precondition on the parameters
ValidBudgetParams ==
    call.params.mission_duration > 0 /\ call.params.storage_capacity > 0

IsCalculateCall == call.op = "calculate"

IsModelCalculate == dbmCall.op = "calculate"

NonDecreasing(s) == \A i \in 1..(Len(s) - 1) : s[i] <= s[i + 1]

\* C1: every sample of the timeline _generate_timeline returns has
\* cumulative_storage >= 0, whatever the windows (any order, overlapping,
\* starting before the current time).
C1_TimelineNeverNegative ==
    (IsTimelineCall /\ call.mission_duration_hours > 0) =>
        \A i \in 1..Len(call.timeline) : call.timeline[i][2] >= 0

\* C2: with mission_duration > 0 and storage_capacity > 0,
\* calculate_data_budget ends without an error and returns a result that
\* carries the timeline.
C2_BudgetReturnsResultWithTimeline ==
    (IsBudgetCall /\ ValidBudgetParams)
        => (call.out.raised = NoError /\ "timeline" \in DOMAIN call.out.result)

\* C3: the max_storage_required of a calculate_data_budget call is the
\* maximum cumulative_storage of the timeline of that same call, also when
\* the clock advances between the two timeline computations.
C3_MaxStorageIsMaxOfTimeline ==
    (BudgetComputed /\ ValidBudgetParams) =>
        call.out.locals.max_storage_required = SeqMax(Storage(call.out.locals.timeline))

\* C4: the storage margin is storage_capacity minus max_storage_required
\* with both in one unit (MB, or MB_TO_BITS-ths of a MB), so that the
\* configuration is judged viable exactly when storage_capacity >=
\* max_storage_required.
C4_MarginInOneUnit ==
    (BudgetComputed /\ ValidBudgetParams) =>
        LET capacity == call.params.storage_capacity
            required == call.out.locals.max_storage_required
            margin == call.out.locals.storage_margin
        IN  /\ call.out.locals.is_viable <=> (capacity >= required)
            /\ \/ margin = capacity - required
               \/ margin % MB_TO_BITS = 0 /\ margin \div MB_TO_BITS = capacity - required

\* the downlink of the windows at the rate _generate_timeline subtracts for each
RECURSIVE TimelineDownlink(_)
TimelineDownlink(opportunities) ==
    IF opportunities = <<>> THEN 0
    ELSE LET window == Head(opportunities)
         IN  MulDiv(dict_get(window, "downlink_rate", DEFAULT_DOWNLINK_RATE),
                    total_seconds(window.end - window.start), MB_TO_BITS)
             + TimelineDownlink(Tail(opportunities))

\* C5: the total downlink capacity is the sum over the windows of the
\* window's own 'downlink_rate' (the default rate if it has none) times its
\* duration: the rate _generate_timeline uses for that window.
C5_CapacityAtWindowRates ==
    (IsBudgetCall /\ ValidBudgetParams) =>
        call.out.locals.total_downlink_capacity
            = TimelineDownlink(call.params.downlink_opportunities)

\* C6: with no downlink window and mission_duration > 0 the timeline never
\* decreases and max_storage_required is the data generated over the whole
\* mission (total_data_generated).
C6_NoDownlinkMaxIsTotalGenerated ==
    (IsBudgetCall /\ call.params.downlink_opportunities = <<>>
        /\ call.params.mission_duration > 0)
        => /\ call.out.raised # "ValueError"
           /\ NonDecreasing(Storage(call.out.locals.timeline))
           /\ call.out.locals.max_storage_required = call.out.locals.total_data_generated

C6_Witness ==
    /\ IsBudgetCall
    /\ call.params.downlink_opportunities = <<>>
    /\ call.params.mission_duration > 0
    /\ call.params.data_rate > 0
    /\ call.now1 < call.now2
    /\ call.out.locals.max_storage_required > 0

\* the windows of a list that start at s, in the list's order
StartingAt(opportunities, s) ==
    LET starts_at_s(w) == w.start = s
    IN  SelectSeq(opportunities, starts_at_s)

DistinctStarts(opportunities) ==
    \A i, j \in 1..Len(opportunities) :
        i # j => opportunities[i].start # opportunities[j].start

Reorderings(opportunities) ==
    {[i \in 1..Len(opportunities) |-> opportunities[f[i]]] :
        f \in Permutations(1..Len(opportunities))}

\* C7: for a fixed clock _generate_timeline returns the same timeline for
\* every permutation of windows with distinct start times, and it processes
\* windows of equal start time in their input order.
C7_OrderFreeAndStable ==
    IsTimelineCall =>
        /\ DistinctStarts(call.opportunities) =>
             \A p \in Reorderings(call.opportunities) :
                 _generate_timeline(call.data_rate_bps, p, call.mission_duration_hours,
                                    call.now) = call.timeline
        /\ \A s \in 0..(MaxTime + 1) :
             StartingAt(call.sorted, s) = StartingAt(call.opportunities, s)
        /\ \A i \in 1..(Len(call.sorted) - 1) :
             call.sorted[i].start <= call.sorted[i + 1].start

C7_Witness ==
    /\ IsTimelineCall
    /\ Len(call.opportunities) = 2
    /\ call.opportunities[1].start > call.opportunities[2].start
    /\ call.data_rate_bps > 0
    /\ call.sorted # call.opportunities

\* C8: calculate returns backlog = max(0, data_generated - downlink_capacity);
\* days_until_full is None exactly when backlog <= 0 and is
\* storage_available / backlog otherwise.
C8_BacklogAndDaysUntilFull ==
    IsCalculateCall =>
        LET res == call.out.result
        IN  /\ call.out.raised = NoError
            /\ res.backlog = max(0, res.data_generated - res.downlink_capacity)
            /\ (res.days_until_full = None) <=> (res.backlog <= 0)
            /\ res.backlog > 0 =>
                 /\ res.days_until_full # None
                 /\ res.days_until_full[2] # 0
                 /\ FracEq(res.days_until_full, Frac(res.storage_available, res.backlog))

C8_Witness ==
    /\ IsCalculateCall
    /\ call.out.result.backlog > 0
    /\ call.out.result.days_until_full # None
    /\ call.out.result.storage_available > 0

\* C9: the storage_backlog DataBudgetModel.calculate returns is never
\* negative, for every parameter set that passes validation.
C9_ModelBacklogNeverNegative ==
    (IsModelCalculate /\ dbmCall.raised = NoError)
        => dbmCall.result.storage_backlog >= 0

InvalidParameters(parameters) ==
    \/ \E k \in DOMAIN parameters : parameters[k] < 0
    \/ parameters["storage_capacity"] = 0
    \/ parameters["payload_data_rate"] = 0

\* C10: after any sequence of set_parameters calls, calculate raises
\* ValueError and returns no result whenever a stored parameter is negative,
\* storage_capacity is 0 or payload_data_rate is 0; no later step of the
\* calculation (its division included) is reached before the check.
C10_InvalidParametersRaiseValueError ==
    (IsModelCalculate /\ InvalidParameters(dbmParameters))
        => (dbmCall.raised = "ValueError" /\ dbmCall.result = None)

C10_Witness ==
    /\ IsModelCalculate
    /\ dbmCall.raised = "ValueError"
    /\ dbmParameters["storage_capacity"] = 0
    /\ dbmParameters["payload_data_rate"] > 0
    /\ dbmParameters["downlink_rate"] > 0
    /\ dbmParameters["pass_duration"] = 0
    /\ \A k \in DOMAIN dbmParameters : dbmParameters[k] >= 0

(***************************************************************************)
(* Properties of the link-budget engines                                   *)
(***************************************************************************)
IsLinkCalculate == lbmCall.op = "calculate"

IsSweep == lbmCall.op = "calculate_margin_vs_parameter"

IsLinkCalculatorCall == call.op = "LinkBudgetCalculator.calculate"

AllZero(parameters) == \A k \in DOMAIN parameters : parameters[k] = 0

\* C11: after any sequence of set_parameters calls, LinkBudgetModel.calculate
\* raises ValueError and returns no LinkBudgetResult whenever the stored
\* frequency is 0, the stored distance is 0, or all stored parameters are 0.
C11_ZeroFrequencyOrDistanceRaises ==
    (IsLinkCalculate
        /\ (\/ lbmParameters["frequency"] = 0
            \/ lbmParameters["distance"] = 0
            \/ AllZero(lbmParameters)))
    => (lbmCall.raised = "ValueError" /\ lbmCall.result = None)

\* calculate has raised on a stored frequency of 0 with a distance that is not 0
C11_Witness ==
    /\ IsLinkCalculate
    /\ lbmParameters["frequency"] = 0
    /\ lbmParameters["distance"] # 0
    /\ lbmCall.raised = "ValueError"

\* C12: LinkBudgetCalculator.calculate called with any propagation_model
\* other than 'AWGN', the listed 'Rayleigh', 'Rician' and 'Log-normal'
\* included, raises NotImplementedError naming the requested model before
\* any result field is computed or returned.
C12_OnlyAwgnImplemented ==
    (IsLinkCalculatorCall /\ call.propagation_model # "AWGN")
    => /\ call.out.raised = "NotImplementedError"
       /\ call.out.message[1] = call.propagation_model
       /\ call.out.computed = {}
       /\ call.out.result = None

\* a model the calculator lists has been requested and refused
C12_Witness ==
    /\ IsLinkCalculatorCall
    /\ call.propagation_model = "Rician"
    /\ call.out.raised = "NotImplementedError"

\* C13: LinkBudgetModel.calculate called with nonzero frequency and distance
\* but receiver_bandwidth = 0 (the constructor default) or
\* system_temperature = 0 ends in an explicit invalid-input error; it never
\* returns a LinkBudgetResult whose noise_power, carrier_to_noise or
\* link_margin is infinite or NaN.
C13_ZeroBandwidthOrTemperatureIsInvalidInput ==
    (IsLinkCalculate
        /\ lbmParameters["frequency"] # 0
        /\ lbmParameters["distance"] # 0
        /\ (lbmParameters["receiver_bandwidth"] = 0
            \/ lbmParameters["system_temperature"] = 0))
    => lbmCall.raised = "ValueError"

\* C14: the status returned by LinkBudgetModel.calculate is one of three
\* classes chosen by the link margin: negative/unstable when margin < 0,
\* low/marginal when 0 <= margin < 3 dB, and sufficient/stable only when
\* margin >= 3 dB.
C14_ThreeStatusClasses ==
    (IsLinkCalculate /\ lbmCall.raised = NoError /\ IsFinite(lbmCall.result.link_margin))
    => LET margin == lbmCall.result.link_margin
           status == lbmCall.result.status
           negative == " Negative link margin - connection unstable"
           sufficient == " Link margin sufficient - stable connection expected"
       IN  /\ flt(margin, 0) <=> status = negative
           /\ ~flt(margin, 3000) <=> status = sufficient

\* C15: for param_type 'Distance' (respectively 'Frequency') and a value
\* equal to the currently stored distance (respectively frequency),
\* calculate_margin_vs_parameter returns the same link margin as
\* calculate().link_margin for the same stored parameters.
C15_SweepAtStoredValueEqualsCalculate ==
    (IsSweep
        /\ (\/ lbmCall.param_type = "Distance" /\ lbmCall.value = lbmParameters["distance"]
            \/ lbmCall.param_type = "Frequency" /\ lbmCall.value = lbmParameters["frequency"])
        /\ lbm_calculate(lbmParameters).raised = NoError
        /\ IsFinite(lbm_calculate(lbmParameters).result.link_margin))
    => /\ lbmCall.out.raised = NoError
       /\ lbmCall.out.margin = lbm_calculate(lbmParameters).result.link_margin

\* two outcomes of calculate agree: the same exception with the same message,
\* or the same result fields
SameOutcome(a, b) ==
    /\ a.raised = b.raised
    /\ a.message = b.message
    /\ (a.raised = NoError => a.result = b.result)

\* C16: any sequence of calculate_margin_vs_parameter calls (any param_type,
\* value and modulation, calls that raise included) leaves the stored
\* parameters unchanged, so that calculate() gives after the sweep what it
\* gave before it.
C16_SweepLeavesParametersUnchanged ==
    [][lbmCall'.op = "calculate_margin_vs_parameter"
        => /\ lbmParameters' = lbmParameters
           /\ SameOutcome(lbm_calculate(lbmParameters'), lbm_calculate(lbmParameters))]_vars

\* a sweep has returned a margin for a distance other than the stored one
C16_Witness ==
    /\ IsSweep
    /\ lbmCall.param_type = "Distance"
    /\ lbmCall.value # lbmParameters["distance"]
    /\ lbmCall.out.raised = NoError

\* C17: every data-budget entry point reports an invalid-input error instead
\* of returning a result when storage_capacity is zero or negative; in
\* particular DataBudgetCalculator.calculate and calculate_data_budget do.
C17_NonPositiveStorageIsInvalidInput ==
    /\ (IsCalculateCall /\ call.storage_capacity <= 0) => call.out.raised = "ValueError"
    /\ (IsBudgetCall /\ call.params.mission_duration > 0
            /\ call.params.storage_capacity <= 0) => call.out.raised = "ValueError"

\* the outcome of set_parameters(p) then calculate() on a fresh instance of
\* the class the callers share
Alone(p) ==
    IF shared = "LinkBudgetModel"
    THEN lbm_calculate(set_parameters(lbm_initial_parameters, p))
    ELSE dbm_calculate(set_parameters(initial_parameters, p))

\* C18: when two callers each run set_parameters(p_i) followed by calculate()
\* on the same LinkBudgetModel (or DataBudgetModel) instance, under every
\* interleaving of their steps each caller's result equals the result of a
\* calculation on its own p_i alone.
C18_EachCallerGetsItsOwnResult ==
    \A i \in Callers : caller[i].pc = "done" => SameOutcome(caller[i], Alone(caller[i].p))

\* C19: calling LinkBudgetModel.calculate (or DataBudgetModel.calculate) twice
\* with no set_parameters call in between gives the same outcome both times,
\* identical result fields or the same ValueError, and calculate never
\* modifies the stored parameters, whether it succeeds or raises.
C19_CalculateIsIdempotent ==
    [][/\ lbmCall'.op = "calculate" => lbmParameters' = lbmParameters
       /\ (lbmCall.op = "calculate" /\ lbmCall'.op = "calculate")
            => SameOutcome(lbmCall', lbmCall)
       /\ dbmCall'.op = "calculate" => dbmParameters' = dbmParameters
       /\ (dbmCall.op = "calculate" /\ dbmCall'.op = "calculate")
            => SameOutcome(dbmCall', dbmCall)]_vars

\* calculate has returned a result for the second time in a row
C19_Witness ==
    /\ IsLinkCalculate
    /\ lbmCall.again
    /\ lbmCall.raised = NoError
    /\ lbmParameters["required_snr"] # 0

\* every window of the call lies inside the mission interval
WindowsInsideMission ==
    \A i \in 1..Len(call.opportunities) :
        /\ call.now <= call.opportunities[i].start
        /\ call.opportunities[i].start < call.opportunities[i].end
        /\ call.opportunities[i].end
              <= call.now + timedelta_hours(call.mission_duration_hours)

\* C20: for every list of n downlink windows, the timeline returned by
\* _generate_timeline consists of the 2n window-start/window-end samples
\* followed by a final sample, and that last sample is always at mission end
\* (now + mission_duration_hours).
C20_FinalSampleAtMissionEnd ==
    (IsTimelineCall /\ call.mission_duration_hours > 0 /\ WindowsInsideMission)
    => /\ Len(call.timeline) = 2 * Len(call.opportunities) + 1
       /\ call.timeline[Len(call.timeline)][1]
             = call.now + timedelta_hours(call.mission_duration_hours)

(***************************************************************************)
(* Further properties of the data-budget engines                           *)
(***************************************************************************)
\* C21: for every parameter set that satisfies the preconditions (all
\* parameters >= 0, storage_capacity > 0, payload_data_rate > 0), with
\* downlink_rate = 0, pass_duration = 0 or passes_per_day = 0 included,
\* DataBudgetModel.calculate returns a DataBudgetResult; the only error it
\* can raise is the ValueError of input validation.
C21_ValidParametersReturnResult ==
    IsModelCalculate
    => /\ ~InvalidParameters(dbmParameters) => dbmCall.raised = NoError
       /\ dbmCall.raised \in {NoError, "ValueError"}

(***************************************************************************)
(* Further properties of the link-budget engines                           *)
(***************************************************************************)
SupportedSchemes == {"QPSK", "8PSK", "16QAM", "64QAM"}

\* C22: calculate_margin_vs_parameter with param_type 'Modulation' and a
\* scheme outside {QPSK, 8PSK, 16QAM, 64QAM} fails with an error that names
\* the unsupported scheme; it never returns a margin computed with a silently
\* defaulted penalty.
C22_UnsupportedSchemeIsRefused ==
    (IsSweep
        /\ lbmCall.param_type = "Modulation"
        /\ lbmCall.modulation # None
        /\ lbmCall.modulation # <<"">>
        /\ lbmCall.modulation[1] \notin SupportedSchemes
        /\ lbmParameters["frequency"] # 0)
    => /\ lbmCall.out.raised # NoError
       /\ \E i \in DOMAIN lbmCall.out.message : lbmCall.out.message[i] = lbmCall.modulation[1]

\* the decibel value x of which the bit_error_rate of the last calculate is
\* 0.5 * exp(-10 ** (x / 10) / 2)
BerArgument == lbmCall.result.bit_error_rate.half_exp_of_minus_half_pow10_of_db

\* C23: the bit_error_rate returned by LinkBudgetModel.calculate is
\* 0.5 * exp(-S / 2) with S = 10 ^ (carrier_to_noise / 10) for the
\* carrier_to_noise of the same result.  The formula is strictly decreasing
\* in the decibel value, so the two agree only if the decibel values do;
\* the carrier-to-noise ratios looked at are between -30 dB and 10 dB, where
\* no float of the formula saturates.
C23_BerOfCarrierToNoise ==
    (IsLinkCalculate
        /\ lbmCall.raised = NoError
        /\ IsFinite(lbmCall.result.carrier_to_noise)
        /\ lbmCall.result.carrier_to_noise[2] > -30000
        /\ lbmCall.result.carrier_to_noise[2] < 10000)
    => BerArgument = lbmCall.result.carrier_to_noise

\* every window of the call starts at or after every reading of the clock and
\* ends after it starts
WindowsAfterEveryClock ==
    \A i \in 1..Len(call.opportunities) :
        /\ \A now \in Clock : now <= call.opportunities[i].start
        /\ call.opportunities[i].start < call.opportunities[i].end

\* C24: two calls of _generate_timeline with identical arguments (data rate,
\* windows at absolute timestamps, mission duration) made at two different
\* wall-clock times return the same sequence of cumulative_storage values.
C24_TimelineIndependentOfClock ==
    (IsTimelineCall /\ call.mission_duration_hours > 0 /\ WindowsAfterEveryClock)
    => \A now \in Clock :
          Storage(_generate_timeline(call.data_rate_bps, call.opportunities,
                                     call.mission_duration_hours, now))
            = Storage(call.timeline)

\* the timestamps of a timeline
Timestamps(timeline) == [i \in 1..Len(timeline) |-> timeline[i][1]]

\* every window of the call ends after it starts
WindowsProper ==
    \A i \in 1..Len(call.opportunities) :
        call.opportunities[i].start < call.opportunities[i].end

\* C25: for every list of downlink windows, the timestamps of the timeline
\* returned by _generate_timeline are non-decreasing from the first sample to
\* the last, also when windows overlap or one window lies inside another.
C25_TimestampsNonDecreasing ==
    (IsTimelineCall /\ call.mission_duration_hours > 0 /\ WindowsInsideMission
        /\ DistinctStarts(call.opportunities))
    => NonDecreasing(Timestamps(call.timeline))

\* C26: every sample timestamp of the timeline returned by _generate_timeline
\* lies within the mission interval [now, now + mission_duration_hours];
\* windows that start before now or end after mission end add no sample
\* outside that interval.
C26_SamplesInsideMission ==
    (IsTimelineCall /\ call.mission_duration_hours > 0 /\ WindowsProper)
    => \A i \in 1..Len(call.timeline) :
          /\ call.now <= call.timeline[i][1]
          /\ call.timeline[i][1] <= call.now + timedelta_hours(call.mission_duration_hours)

\* C27: whenever the days_until_full returned by DataBudgetCalculator.calculate
\* is not None it is >= 0, for all non-negative inputs, those with
\* current_storage + data_generated greater than storage_capacity included.
C27_DaysUntilFullNeverNegative ==
    (IsCalculateCall
        /\ call.storage_capacity > 0
        /\ call.out.raised = NoError
        /\ call.out.result.days_until_full # None)
    => ~FracLess(call.out.result.days_until_full, 0)

\* C28: in DataBudgetModel.calculate the recommendations list is non-empty
\* exactly when the daily backlog is > 0 (the status is 'Normal' otherwise),
\* and whenever the backlog is > 0 with downlink_rate > 0 and
\* pass_duration > 0 the list contains the 'Increase number of ground station
\* passes' entry.
C28_RecommendationsFollowBacklog ==
    (IsModelCalculate /\ dbmCall.raised = NoError)
    => LET res == dbmCall.result
       IN  /\ (res.recommendations # <<>>) <=> (res.storage_backlog > 0)
           /\ res.storage_backlog <= 0 => res.storage_status = "Normal"
           /\ (res.storage_backlog > 0 /\ dbmParameters["downlink_rate"] > 0
                 /\ dbmParameters["pass_duration"] > 0)
              => \E i \in DOMAIN res.recommendations :
                    res.recommendations[i] = "Increase number of ground station passes"

\* calculate has returned a positive backlog with passes that downlink data
C28_Witness ==
    /\ IsModelCalculate
    /\ dbmCall.raised = NoError
    /\ dbmCall.result.storage_backlog > 0
    /\ dbmParameters["downlink_rate"] > 0
    /\ dbmParameters["pass_duration"] > 0
    /\ dbmParameters["passes_per_day"] > 0


(***************************************************************************)
(* Properties of the link budget controller and the application manager    *)
(***************************************************************************)
\* the rows the link budget view or the report was last given
ShownRows == linkView.shown.rows

\* C29: the 'path_loss' value that calculate_link_budget passes to the view,
\* and that generate_pdf_report prints as Path Loss, is the free-space path
\* loss the model computes for the current parameters, formatted with one
\* decimal (stated for a positive receiver bandwidth, where the noise power
\* is finite)
C29_PathLossIsFreeSpaceLoss ==
    (linkView.op \in {"calculate_link_budget", "generate_pdf_report"}
        /\ linkView.shown.kind \in {"results", "report"}
        /\ lbmParameters["receiver_bandwidth"] > 0)
    => ShownRows.path_loss = format_1f(_calculate_free_space_loss(lbmParameters), 1)

\* the window each navigation call of the ApplicationManager shows
shown_by == [show_login |-> "login_window", show_home |-> "home_window",
             show_main |-> "main_window", load_module |-> "main_window"]

\* the windows of the ApplicationManager that are visible
VisibleWindows ==
    {w \in {"login_window", "home_window", "main_window"} : manager[w].visible}

\* C30: after a show_login, show_home, show_main or load_module call that
\* completes without error, exactly one of the login, home and main windows
\* is visible, the one that call shows, and no window class has been
\* constructed more than once since the start or the last cleanup
C30_ExactlyOneWindowVisible ==
    (appCall.op \in DOMAIN shown_by /\ appCall.ok)
    => /\ VisibleWindows = {shown_by[appCall.op]}
       /\ \A w \in DOMAIN manager.created : manager.created[w] <= 1

\* show_home completes without error while the login and main windows exist
C30_Witness ==
    /\ appCall.op = "show_home"
    /\ appCall.ok
    /\ manager.login_window.exists
    /\ manager.main_window.exists
    /\ manager.home_window.visible

====
